---- MODULE Spec2Model ----
(***************************************************************************)
(* A model of ArbBitField.py: a layout is a format string (one width       *)
(* character per field) and a value string (one symbol per field).         *)
(*                                                                         *)
(* A Python str is modelled as a sequence of one-character strings, so a   *)
(* value "3B" is <<"3", "B">>.  A list of bools is a sequence of BOOLEAN.  *)
(* Every method is one action; the pure part of a method is an operator    *)
(* that computes what the method's code computes.                          *)
(***************************************************************************)
EXTENDS Integers, Sequences, FiniteSets, TLC

VARIABLES
    objs,   \* the live ArbBitField instances, in order of creation
    last    \* the last call: its operation, arguments, result and exception

vars == <<objs, last>>

(***************************************************************************)
(* Bounds of the model.                                                    *)
(***************************************************************************)
MaxHeap == 4    \* fields of all the live instances together
MaxFields == 2  \* fields of the layout of a specification with one instance
MaxBits == 6    \* total width of the layouts whose bit lists are explored
MaxIn == 2      \* characters of a format or value string given to a call

(***************************************************************************)
(* Characters.  Ascii lists the characters with codes 48 ('0') to 122      *)
(* ('z') in code order, so that ord and chr are what Python's are on them;  *)
(* the two characters a TLA+ string cannot hold are written by name.       *)
(***************************************************************************)
Ascii ==
    << "0", "1", "2", "3", "4", "5", "6", "7", "8", "9",
       ":", ";", "<", "=", ">", "?", "@",
       "A", "B", "C", "D", "E", "F", "G", "H", "I", "J", "K", "L", "M",
       "N", "O", "P", "Q", "R", "S", "T", "U", "V", "W", "X", "Y", "Z",
       "[", "backslash", "]", "^", "_", "backquote",
       "a", "b", "c", "d", "e", "f", "g", "h", "i", "j", "k", "l", "m",
       "n", "o", "p", "q", "r", "s", "t", "u", "v", "w", "x", "y", "z" >>

ord(c) == 47 + (CHOOSE i \in 1..Len(Ascii) : Ascii[i] = c)

chr(n) == Ascii[n - 47]

LowerCase == {chr(x) : x \in ord("a")..ord("z")}

Digits == {chr(ord("0") + x) : x \in 0..9}

\* str.upper() on one character
upper(c) == IF c \in LowerCase THEN chr(ord(c) - 32) ELSE c

Min(a, b) == IF a < b THEN a ELSE b

Max(a, b) == IF a > b THEN a ELSE b

\* s[::-1]
Reverse(s) == [i \in 1..Len(s) |-> s[Len(s) + 1 - i]]

\* [x for x in s if x in keep]
RECURSIVE Filter(_, _)
Filter(s, keep) ==
    IF s = <<>> THEN <<>>
    ELSE IF Head(s) \in keep THEN <<Head(s)>> \o Filter(Tail(s), keep)
    ELSE Filter(Tail(s), keep)

\* s.upper()
Upper(s) == [i \in 1..Len(s) |-> upper(s[i])]

\* c * n for a one-character string c
Repeat(c, n) == [i \in 1..n |-> c]

\* Python's clamping of one slice end i against a sequence of n items
Clamp(i, n) == IF i < 0 THEN Max(i + n, 0) ELSE Min(i, n)

\* s[lo:hi]
Slice(s, lo, hi) == SubSeq(s, Clamp(lo, Len(s)) + 1, Clamp(hi, Len(s)))

\* all strings over the characters S of at most n characters
StringsOver(S, n) == UNION {[1..k -> S] : k \in 0..n}

(***************************************************************************)
(* Class attributes set by __init__ (the same on every construction).      *)
(***************************************************************************)
legalValChars == Digits \cup {chr(x + ord("A")) : x \in 0..15}

legalFmtChars == {chr(ord("0") + x) : x \in 1..5}

\* a slip: the line val = val[:len(self.fmt)] left out
clean_val_uncut(isNone, val, n) ==
    LET kept == IF isNone THEN <<>> ELSE Filter(Upper(val), legalValChars)
    IN  kept \o Repeat("0", n - Len(kept))

(***************************************************************************)
(* _clean_val_: the legal characters of val, upper-cased, cut or padded    *)
(* with '0' to n = len(self.fmt) characters.                               *)
(***************************************************************************)
clean_val(isNone, val, n) ==
    LET kept == IF isNone THEN <<>> ELSE Filter(Upper(val), legalValChars)
        cut == Slice(kept, 0, n)
    IN  cut \o Repeat("0", n - Len(cut))

\* the format __init__ stores
clean_fmt(fmt) == Filter(Upper(fmt), legalFmtChars)

\* _field_to_int_
field_to_int(field) ==
    IF field \in Digits
    THEN ord(field) - ord("0")
    ELSE 10 + ord(field) - ord("A")

\* 1 & tmp >> bit_n
BitOf(tmp, bit_n) == (tmp \div (2 ^ bit_n)) % 2

\* _to_char_: val is a list of '0'/'1' characters, most significant first
RECURSIVE BinSum(_)
BinSum(val) ==
    IF val = <<>> THEN 0
    ELSE (IF val[Len(val)] = "1" THEN 1 ELSE 0)
         + 2 * BinSum(SubSeq(val, 1, Len(val) - 1))

to_char(val) ==
    LET vint == BinSum(val)
        offset == IF vint > 9 THEN ord("A") - 10 ELSE ord("0")
    IN  chr(vint + offset)

\* _to_int_ of one character (a format character, or one symbol)
to_int1(c) == field_to_int(c)

(***************************************************************************)
(* What a call returns: nothing, one int, a list of ints, a list of bools. *)
(***************************************************************************)
NoRet == [kind |-> "none", int |-> 0, list |-> <<>>, bools |-> <<>>]

RetInt(n) == [NoRet EXCEPT !.kind = "int", !.int = n]

RetList(l) == [NoRet EXCEPT !.kind = "list", !.list = l]

RetBools(b) == [NoRet EXCEPT !.kind = "bools", !.bools = b]

\* a slip: a list whatever the length
to_int_list(field) == RetList([i \in 1..Len(field) |-> field_to_int(field[i])])

\* _to_int_: one int for a one-character string, a list of ints otherwise
to_int(field) ==
    IF Len(field) = 1
    THEN RetInt(field_to_int(field[1]))
    ELSE RetList([i \in 1..Len(field) |-> field_to_int(field[i])])

(***************************************************************************)
(* bool(): the bits of every field, field after field.                     *)
(***************************************************************************)
RECURSIVE bool_loop(_, _, _)
bool_loop(tmp_fmt, tmp_val, rev_bits) ==
    IF tmp_fmt = <<>> THEN <<>>
    ELSE LET count == to_int1(Head(tmp_fmt))
             tmp == to_int1(Head(tmp_val))
             lsb_first == [c \in 1..count |-> BitOf(tmp, c - 1) = 1]
         IN  (IF rev_bits THEN lsb_first ELSE Reverse(lsb_first))
             \o bool_loop(Tail(tmp_fmt), Tail(tmp_val), rev_bits)

\* a slip: rev_fields reverses the format and not the value
bool_val_unreversed(self, rev_bits, rev_fields) ==
    IF rev_fields
    THEN bool_loop(Reverse(self.fmt), self.val, rev_bits)
    ELSE bool_loop(self.fmt, self.val, rev_bits)

bool(self, rev_bits, rev_fields) ==
    IF rev_fields
    THEN bool_loop(Reverse(self.fmt), Reverse(self.val), rev_bits)
    ELSE bool_loop(self.fmt, self.val, rev_bits)

(***************************************************************************)
(* set_bool(): one symbol per field from the next count bits of b_lst; a   *)
(* slice that runs past the end of the list is cut short.                  *)
(***************************************************************************)
RECURSIVE set_bool_loop(_, _, _, _)
set_bool_loop(tmp_fmt, tmp_val, offset, rev_bits) ==
    IF tmp_fmt = <<>> THEN <<>>
    ELSE LET count == to_int1(Head(tmp_fmt))
             chunk == Slice(tmp_val, offset, offset + count)
         IN  <<to_char(IF rev_bits THEN Reverse(chunk) ELSE chunk)>>
             \o set_bool_loop(Tail(tmp_fmt), tmp_val, offset + count, rev_bits)

\* a slip: vstr stored as built, not reversed back under rev_fields
set_bool_unreversed(self, b_lst, rev_bits, rev_fields) ==
    LET tmp_fmt == IF rev_fields THEN Reverse(self.fmt) ELSE self.fmt
        tmp_val == [i \in 1..Len(b_lst) |-> IF b_lst[i] THEN "1" ELSE "0"]
    IN  set_bool_loop(tmp_fmt, tmp_val, 0, rev_bits)

set_bool(self, b_lst, rev_bits, rev_fields) ==
    LET tmp_fmt == IF rev_fields THEN Reverse(self.fmt) ELSE self.fmt
        tmp_val == [i \in 1..Len(b_lst) |-> IF b_lst[i] THEN "1" ELSE "0"]
        vstr == set_bool_loop(tmp_fmt, tmp_val, 0, rev_bits)
    IN  IF rev_fields THEN Reverse(vstr) ELSE vstr

(***************************************************************************)
(* Keys of __getitem__ and __setitem__: an int, or slice(lo, hi) with two  *)
(* ints (no step).                                                         *)
(***************************************************************************)
NoKey == [kind |-> "none", lo |-> 0, hi |-> 0]

Index(i) == [kind |-> "index", lo |-> i, hi |-> i]

SliceKey(lo, hi) == [kind |-> "slice", lo |-> lo, hi |-> hi]

\* whether s[i] raises IndexError
OutOfRange(s, i) == i < 0 - Len(s) \/ i >= Len(s)

\* s[i] for an index in range
At(s, i) == IF i < 0 THEN s[i + Len(s) + 1] ELSE s[i + 1]

\* the positions (from 1) a key addresses in a string of n characters
Addressed(key, n) ==
    IF key.kind = "index"
    THEN IF key.lo < 0 - n \/ key.lo >= n THEN {}
         ELSE {IF key.lo < 0 THEN key.lo + n + 1 ELSE key.lo + 1}
    ELSE (Clamp(key.lo, n) + 1)..Clamp(key.hi, n)

\* __getitem__: [err, ret]
getitem(self, key) ==
    IF key.kind = "index"
    THEN IF OutOfRange(self.val, key.lo)
         THEN [err |-> "IndexError", ret |-> NoRet]
         ELSE [err |-> "", ret |-> to_int(<<At(self.val, key.lo)>>)]
    ELSE [err |-> "", ret |-> to_int(Slice(self.val, key.lo, key.hi))]

\* tmp[lo:hi] = val_c on a bytearray
SliceAssign(tmp, lo, hi, val_c) ==
    LET a == Clamp(lo, Len(tmp))
        b == Max(a, Clamp(hi, Len(tmp)))
    IN  SubSeq(tmp, 1, a) \o val_c \o SubSeq(tmp, b + 1, Len(tmp))

\* a slip: the assert on the two lengths left out
SameLengthUnchecked(part, val_c) == TRUE

\* the assert of __setitem__ on a slice
SameLength(part, val_c) == Len(part) = Len(val_c)

\* __setitem__: [err, val]; an item of a bytearray is an int, which has no len()
setitem(self, key, val_c) ==
    IF key.kind = "index"
    THEN IF OutOfRange(self.val, key.lo)
         THEN [err |-> "IndexError", val |-> self.val]
         ELSE [err |-> "TypeError", val |-> self.val]
    ELSE IF ~SameLength(Slice(self.val, key.lo, key.hi), val_c)
         THEN [err |-> "AssertionError", val |-> self.val]
         ELSE [err |-> "", val |-> SliceAssign(self.val, key.lo, key.hi, val_c)]

\* __add__: the layout ret refers to after the two assignments
add(self, rhs) == [fmt |-> self.fmt \o rhs.fmt, val |-> self.val \o rhs.val]

(***************************************************************************)
(* The record of a call.  A specification that follows several instances   *)
(* keeps only which operation ran on which instance and how it ended       *)
(* (detail = FALSE); one that follows a single instance keeps the          *)
(* arguments, the value before the call and the result as well.            *)
(***************************************************************************)
NoCall ==
    [op |-> "none", id |-> 0, rhs |-> 0,
     fmt_in |-> <<>>, isNone |-> FALSE, s |-> <<>>,
     key |-> NoKey, b_lst |-> <<>>, rev_bits |-> FALSE, rev_fields |-> FALSE,
     pre |-> <<>>, ret |-> NoRet, err |-> ""]

Note(detail, call) ==
    IF detail THEN call
    ELSE [NoCall EXCEPT !.op = call.op, !.id = call.id, !.rhs = call.rhs,
                        !.err = call.err]

Ids == 1..Len(objs)

\* the characters of a string
Chars(s) == {s[i] : i \in 1..Len(s)}

RECURSIVE TotalFields(_)
TotalFields(heap) ==
    IF heap = <<>> THEN 0 ELSE Len(Head(heap).fmt) + TotalFields(Tail(heap))

\* a slip: the assert on '0' left out
NoZeroWidthUnchecked(fmt) == TRUE

\* the assert of __init__
NoZeroWidth(fmt) == ~("0" \in Chars(fmt))

(***************************************************************************)
(* ArbBitField(fmt, val): the assert on '0', then the two assignments.     *)
(* maxObjs and maxFields bound the live instances and their fields.        *)
(***************************************************************************)
Construct(FmtIn, ValIn, maxObjs, maxFields, detail) ==
    \E fmt \in FmtIn, isNone \in BOOLEAN :
      \E val \in IF isNone THEN {<<>>} ELSE ValIn :
        /\ Len(objs) < maxObjs
        /\ TotalFields(objs) + Len(clean_fmt(fmt)) <= maxFields
        /\ LET call == [NoCall EXCEPT !.op = "init", !.fmt_in = fmt,
                                      !.isNone = isNone, !.s = val]
           IN  IF ~NoZeroWidth(fmt)
               THEN /\ objs' = objs
                    /\ last' = Note(detail, [call EXCEPT !.err = "AssertionError"])
               ELSE /\ objs' = Append(objs,
                          [fmt |-> clean_fmt(fmt),
                           val |-> clean_val(isNone, val, Len(clean_fmt(fmt)))])
                    /\ last' = Note(detail, [call EXCEPT !.id = Len(objs) + 1])

\* x.value = val (set_val)
SetVal(ValIn, detail) ==
    \E i \in Ids, val \in ValIn :
        /\ objs' = [objs EXCEPT ![i].val = clean_val(FALSE, val, Len(objs[i].fmt))]
        /\ last' = Note(detail,
                        [NoCall EXCEPT !.op = "set_val", !.id = i, !.s = val,
                                       !.pre = objs[i].val])

\* x[key]
GetItem(Keys, detail) ==
    \E i \in Ids, key \in Keys :
        LET r == getitem(objs[i], key)
        IN  /\ objs' = objs
            /\ last' = Note(detail,
                            [NoCall EXCEPT !.op = "getitem", !.id = i, !.key = key,
                                           !.pre = objs[i].val,
                                           !.ret = r.ret, !.err = r.err])

\* x[key] = val_c
SetItem(Keys, ValIn, detail) ==
    \E i \in Ids, key \in Keys, val_c \in ValIn :
        LET r == setitem(objs[i], key, val_c)
        IN  /\ objs' = [objs EXCEPT ![i].val = r.val]
            /\ last' = Note(detail,
                            [NoCall EXCEPT !.op = "setitem", !.id = i, !.key = key,
                                           !.s = val_c, !.pre = objs[i].val,
                                           !.err = r.err])

\* x.bool(rev_bits, rev_fields)
Bool(detail) ==
    \E i \in Ids, rev_bits \in BOOLEAN, rev_fields \in BOOLEAN :
        /\ objs' = objs
        /\ last' = Note(detail,
                        [NoCall EXCEPT !.op = "bool", !.id = i,
                             !.rev_bits = rev_bits, !.rev_fields = rev_fields,
                             !.pre = objs[i].val,
                             !.ret = RetBools(bool(objs[i], rev_bits, rev_fields))])

\* the argument lists of set_bool: these bit lists with every pair of flags
AnyFlags(BitsIn) ==
    {[b_lst |-> b, rev_bits |-> rb, rev_fields |-> rf] :
        b \in BitsIn, rb \in BOOLEAN, rf \in BOOLEAN}

\* x.set_bool(b_lst, rev_bits, rev_fields)
SetBool(ArgsIn, detail) ==
    \E i \in Ids, a \in ArgsIn :
        /\ objs' = [objs EXCEPT
                      ![i].val = set_bool(objs[i], a.b_lst, a.rev_bits, a.rev_fields)]
        /\ last' = Note(detail,
                        [NoCall EXCEPT !.op = "set_bool", !.id = i, !.b_lst = a.b_lst,
                             !.rev_bits = a.rev_bits, !.rev_fields = a.rev_fields,
                             !.pre = objs[i].val])

\* a slip: ret = self instead of ret = copy.copy(self)
AddInPlace(heap, i, j) ==
    Append([heap EXCEPT ![i] = add(heap[i], heap[j])], add(heap[i], heap[j]))

\* the instances after x + y: copy.copy makes a new one, x and y stay
AddResult(heap, i, j) == Append(heap, add(heap[i], heap[j]))

\* x + y
Add ==
    \E i \in Ids, j \in Ids :
        /\ TotalFields(objs) + Len(objs[i].fmt) + Len(objs[j].fmt) <= MaxHeap
        /\ objs' = AddResult(objs, i, j)
        /\ last' = [NoCall EXCEPT !.op = "add", !.id = i, !.rhs = j]

(***************************************************************************)
(* Spec: several instances, every operation, inputs over few characters.   *)
(* Every constructed format has one field, so MaxHeap bounds the instances *)
(* as well, and a layout of several fields is the result of a +.           *)
(***************************************************************************)
FmtInH == {<<"1">>}

ValInH == {<<>>, <<"1">>, Repeat("1", MaxHeap + 1)}

KeysH == {Index(0), SliceKey(0, 1), SliceKey(1, MaxHeap)}

ItemInH == {<<>>, <<"1">>, <<"0", "1">>}

BitsInH == {<<>>, <<TRUE>>, Repeat(TRUE, MaxHeap + 1)}

Init ==
    /\ objs = <<>>
    /\ last = NoCall

Next ==
    \/ Construct(FmtInH, ValInH, MaxHeap, MaxHeap, FALSE)
    \/ SetVal(ValInH, FALSE)
    \/ GetItem(KeysH, FALSE)
    \/ SetItem(KeysH, ItemInH, FALSE)
    \/ Bool(FALSE)
    \/ SetBool(AnyFlags(BitsInH), FALSE)
    \/ Add

Spec == Init /\ [][Next]_vars

Mutators == {"set_val", "setitem", "set_bool"}

(***************************************************************************)
(* C1: in every reachable state, after any sequence of constructions,      *)
(* set_val, __setitem__, set_bool (bit lists of any length, any flags) and *)
(* +, every layout's value has as many symbols as its format has fields.   *)
(***************************************************************************)
C1_LengthInvariant ==
    \A i \in Ids : Len(objs[i].val) = Len(objs[i].fmt)

\* a concatenation of two fields, just decoded from a one-bit list
C1_Witness ==
    /\ last.op = "set_bool"
    /\ last.id \in Ids
    /\ objs[last.id].fmt = <<"1", "1">>
    /\ objs[last.id].val = <<"1", "0">>

FmtInF == StringsOver({"0", "1", "2", "5", "6", "x"}, MaxIn)

ValInF == {<<>>, <<"1">>}

NextFmt == Construct(FmtInF, ValInF, 1, MaxFields, TRUE)

SpecFmt == Init /\ [][NextFmt]_vars

(***************************************************************************)
(* SpecVal: one instance, constructed and given values from strings of a   *)
(* digit, a lower-case letter up to p, one after p, and one after V,       *)
(* shorter and longer than the format.                                     *)
(***************************************************************************)
FmtInV == {Repeat("3", n) : n \in 0..MaxFields}

ValInV == StringsOver({"1", "b", "q", "W"}, MaxIn)

NextVal ==
    \/ Construct(FmtInV, ValInV, 1, MaxFields, TRUE)
    \/ SetVal(ValInV, TRUE)

SpecVal == Init /\ [][NextVal]_vars

(***************************************************************************)
(* SpecBits: one instance, bool() and set_bool().  The layout is any of    *)
(* at most MaxFields fields and MaxBits bits in all, each field with a     *)
(* symbol that fits its width or with 'V' (which fits only 5 bits): a      *)
(* state the program reaches by a construction and a slice assignment.     *)
(* set_bool() is given what bool() just returned, that list without its    *)
(* last bit or with one more bit, under bool()'s flags; or a list of no    *)
(* bit or one bit under any flags.                                         *)
(***************************************************************************)
RECURSIVE SumWidths(_)
SumWidths(fmt) ==
    IF fmt = <<>> THEN 0 ELSE to_int1(Head(fmt)) + SumWidths(Tail(fmt))

FormatsB ==
    {f \in StringsOver(legalFmtChars, MaxFields) : SumWidths(f) <= MaxBits}

SymbolsB(fmt_c) ==
    {to_char([i \in 1..to_int1(fmt_c) |-> b[i]]) :
        b \in [1..to_int1(fmt_c) -> {"0", "1"}]} \cup {"V"}

RECURSIVE ValuesB(_)
ValuesB(fmt) ==
    IF fmt = <<>> THEN {<<>>}
    ELSE {<<c>> \o v : c \in SymbolsB(Head(fmt)), v \in ValuesB(Tail(fmt))}

LayoutsB == UNION {{[fmt |-> f, val |-> v] : v \in ValuesB(f)} : f \in FormatsB}

InitBits ==
    /\ \E l \in LayoutsB : objs = <<l>>
    /\ last = NoCall

ArgsInB ==
    {[b_lst |-> b, rev_bits |-> last.rev_bits, rev_fields |-> last.rev_fields] :
        b \in {last.ret.bools,
               SubSeq(last.ret.bools, 1, Len(last.ret.bools) - 1),
               Append(last.ret.bools, TRUE)}}
    \cup AnyFlags({<<>>, <<TRUE>>})

NextBits ==
    \/ Bool(TRUE)
    \/ SetBool(ArgsInB, TRUE)

SpecBits == InitBits /\ [][NextBits]_vars

(***************************************************************************)
(* SpecItem: one instance, x[key] and x[key] = val_c.  The layout has up   *)
(* to MaxFields + 1 fields of 3 bits, each '0' or '2'; the keys are        *)
(* indexes in and out of range and slices of no, one and several fields;   *)
(* the characters assigned are kept as they are, legal or not.             *)
(***************************************************************************)
RECURSIVE ValuesI(_)
ValuesI(n) ==
    IF n = 0 THEN {<<>>}
    ELSE {<<c>> \o v : c \in {"0", "2"}, v \in ValuesI(n - 1)}

LayoutsI ==
    UNION {{[fmt |-> Repeat("3", n), val |-> v] : v \in ValuesI(n)} :
           n \in 0..(MaxFields + 1)}

InitItem ==
    /\ \E l \in LayoutsI : objs = <<l>>
    /\ last = NoCall

KeysI ==
    {Index(i) : i \in {-1, 0, 1, MaxFields + 1}}
    \cup {SliceKey(0, 0), SliceKey(0, 1), SliceKey(1, 2), SliceKey(1, 3),
          SliceKey(2, 1), SliceKey(-1, MaxFields + 2), SliceKey(0, MaxFields + 2)}

ItemInI == {<<>>, <<"A">>, <<"x">>, <<"A", "x">>}

NextItem ==
    \/ GetItem(KeysI, TRUE)
    \/ SetItem(KeysI, ItemInI, TRUE)

SpecItem == InitItem /\ [][NextItem]_vars

(***************************************************************************)
(* What the claims speak of: the 32 symbols and their integers, the widths *)
(* of a format, the bits of an integer.                                    *)
(***************************************************************************)
Alphabet32 ==
    << "0", "1", "2", "3", "4", "5", "6", "7", "8", "9",
       "A", "B", "C", "D", "E", "F", "G", "H", "I", "J", "K",
       "L", "M", "N", "O", "P", "Q", "R", "S", "T", "U", "V" >>

Symbols32 == {Alphabet32[i] : i \in 1..Len(Alphabet32)}

SymbolValue(c) == (CHOOSE i \in 1..Len(Alphabet32) : Alphabet32[i] = c) - 1

WidthChars == <<"1", "2", "3", "4", "5">>

Width(fmt_c) == CHOOSE w \in 1..Len(WidthChars) : WidthChars[w] = fmt_c

RECURSIVE TotalWidth(_)
TotalWidth(fmt) ==
    IF fmt = <<>> THEN 0 ELSE Width(Head(fmt)) + TotalWidth(Tail(fmt))

ShiftAnd1(v, i) == (v \div 2 ^ i) % 2

\* every symbol is one of the 32 and fits the width of its field
WellFormed(fmt, val) ==
    /\ Len(val) = Len(fmt)
    /\ \A k \in 1..Len(fmt) :
          /\ val[k] \in Symbols32
          /\ SymbolValue(val[k]) < 2 ^ Width(fmt[k])

\* the k-th field bool() and set_bool() visit
Visit(n, rev_fields, k) == IF rev_fields THEN n + 1 - k ELSE k

\* the bits of the fields visited before the k-th
RECURSIVE BitsBefore(_, _, _)
BitsBefore(fmt, rev_fields, k) ==
    IF k <= 1 THEN 0
    ELSE Width(fmt[Visit(Len(fmt), rev_fields, k - 1)])
         + BitsBefore(fmt, rev_fields, k - 1)

(***************************************************************************)
(* C2: round trip.  When set_bool is given, under the same flags, the list *)
(* bool just made of a well-formed value (symbols Q..V in a field of 5     *)
(* bits included), the stored value is that value again.                   *)
(***************************************************************************)
C2_RoundTrip ==
    (/\ last.op = "set_bool"
     /\ WellFormed(objs[1].fmt, last.pre)
     /\ last.b_lst = bool([fmt |-> objs[1].fmt, val |-> last.pre],
                          last.rev_bits, last.rev_fields))
    => objs[1].val = last.pre

\* '1' in a field of 1 bit before 'Q' (26) in a field of 5, both reversals
C2_Witness ==
    /\ last.op = "set_bool"
    /\ last.rev_bits /\ last.rev_fields
    /\ objs[1].fmt = <<"1", "5">>
    /\ last.pre = <<"1", "Q">>
    /\ last.b_lst = <<FALSE, TRUE, FALSE, TRUE, TRUE, TRUE>>
    /\ objs[1].val = <<"1", "Q">>

(***************************************************************************)
(* C3: set_bool with a bit list shorter than the sum of the widths fails   *)
(* and stores no value made of the short list.                             *)
(***************************************************************************)
C3_InsufficientBits ==
    (last.op = "set_bool" /\ Len(last.b_lst) < TotalWidth(objs[1].fmt))
    => (last.err # "" /\ objs[1].val = last.pre)

(***************************************************************************)
(* C6: bool returns sum(widths) bits, one chunk per field in the order of  *)
(* the fields (the last field first under rev_fields); the chunk of a      *)
(* field of width w and symbol integer v is (v >> i) & 1 for i from w-1    *)
(* down to 0 (from 0 up to w-1 under rev_bits).                            *)
(***************************************************************************)
C6_BitEncoding ==
    last.op = "bool" =>
        LET fmt == objs[1].fmt
            val == objs[1].val
            n == Len(fmt)
            b == last.ret.bools
        IN  /\ last.ret.kind = "bools"
            /\ Len(b) = TotalWidth(fmt)
            /\ \A k \in 1..n :
                 LET f == Visit(n, last.rev_fields, k)
                     w == Width(fmt[f])
                     v == SymbolValue(val[f])
                 IN  \A j \in 0..(w - 1) :
                        b[BitsBefore(fmt, last.rev_fields, k) + j + 1]
                          = (ShiftAnd1(v, IF last.rev_bits THEN j ELSE w - 1 - j) = 1)

\* 'V' (31) in a field of 2 bits before '3' in a field of 3, both reversals
C6_Witness ==
    /\ last.op = "bool"
    /\ last.rev_bits /\ last.rev_fields
    /\ objs[1] = [fmt |-> <<"2", "3">>, val |-> <<"V", "3">>]
    /\ last.ret.bools = <<TRUE, TRUE, FALSE, TRUE, TRUE>>

(***************************************************************************)
(* C4: after a construction and after every set_val, the stored value is   *)
(* the characters of the input that are, upper-cased, among the 32 symbols *)
(* 0-9 and A-V, in order, cut to the first N and padded with '0' to N,     *)
(* N the number of fields; with no value given it is N times '0'.          *)
(***************************************************************************)
Kept32(val) == SelectSeq(Upper(val), LAMBDA c : c \in Symbols32)

Normal32(isNone, val, n) ==
    LET kept == IF isNone THEN <<>> ELSE Kept32(val)
    IN  [k \in 1..n |-> IF k <= Len(kept) THEN kept[k] ELSE "0"]

C4_Normalization ==
    (last.op \in {"init", "set_val"} /\ last.err = "")
    => objs[1].val = Normal32(last.isNone, last.s, Len(objs[1].fmt))

(***************************************************************************)
(* C5, as claimed: a format string (not empty, as the contract of the      *)
(* construction has it) with the character '0', or with no character among *)
(* 1..5, is refused and no layout is made; any other is accepted and the   *)
(* stored format is its characters among 1..5, in order.                   *)
(***************************************************************************)
KeptWidths(fmt) == SelectSeq(fmt, LAMBDA c : c \in {"1", "2", "3", "4", "5"})

C5_RejectsDegenerate ==
    (last.op = "init" /\ last.fmt_in # <<>>) =>
        IF "0" \in Chars(last.fmt_in) \/ KeptWidths(last.fmt_in) = <<>>
        THEN last.err # "" /\ objs = <<>>
        ELSE last.err = "" /\ Len(objs) = 1
             /\ objs[1].fmt = KeptWidths(last.fmt_in)

(***************************************************************************)
(* C5, amended: a format string with the character '0' is refused (the     *)
(* assert fails) and no layout is made; any other is accepted, one with no *)
(* character among 1..5 too, and the stored format is its characters among *)
(* 1..5, in order: the empty format when there is none.                    *)
(***************************************************************************)
C5_RejectsZeroWidth ==
    last.op = "init" =>
        IF "0" \in Chars(last.fmt_in)
        THEN last.err = "AssertionError" /\ objs = <<>>
        ELSE last.err = "" /\ Len(objs) = 1
             /\ objs[1].fmt = KeptWidths(last.fmt_in)

\* a format string with no width at all is accepted, as the empty format
C5_Witness ==
    /\ last.op = "init"
    /\ last.fmt_in = <<"x", "6">>
    /\ last.err = ""
    /\ Len(objs) = 1
    /\ objs[1].fmt = <<>>

(***************************************************************************)
(* The fields a key addresses, in order, and the integers of their symbols.*)
(***************************************************************************)
ValidIndex(key, n) == key.kind = "index" /\ Cardinality(Addressed(key, n)) = 1

\* the positions a key addresses, in increasing order
AddressedSeq(key, n) ==
    LET P == Addressed(key, n)
    IN  [k \in 1..Cardinality(P) |-> CHOOSE p \in P : Cardinality({q \in P : q < p}) = k - 1]

\* l lists the integers of the symbols of val at the positions pos
IntegersOf(l, val, pos) ==
    /\ Len(l) = Len(pos)
    /\ \A k \in 1..Len(pos) :
          val[pos[k]] \in Symbols32 => l[k] = SymbolValue(val[pos[k]])

(***************************************************************************)
(* C7, as claimed: x[i] is the integer of the symbol at i; x[lo:hi]        *)
(* addressing k fields is a list of k integers, one per field in order,    *)
(* for every k, 1 and 0 included; the layout is unchanged.                 *)
(***************************************************************************)
C7_GetListOfK ==
    [][(last'.op = "getitem") =>
         LET val == objs[1].val
             pos == AddressedSeq(last'.key, Len(val))
         IN  /\ objs' = objs
             /\ ValidIndex(last'.key, Len(val)) =>
                   /\ last'.err = "" /\ last'.ret.kind = "int"
                   /\ IntegersOf(<<last'.ret.int>>, val, pos)
             /\ last'.key.kind = "slice" =>
                   /\ last'.err = "" /\ last'.ret.kind = "list"
                   /\ IntegersOf(last'.ret.list, val, pos)]_vars

(***************************************************************************)
(* C7, amended: x[i] is the integer of the symbol at i; x[lo:hi]           *)
(* addressing k fields is a list of k integers, one per field in order,    *)
(* for every k but 1; addressing one field it is that field's integer,     *)
(* not a list, as x[i] is; the layout is unchanged.                        *)
(***************************************************************************)
C7_GetIntOrList ==
    [][(last'.op = "getitem") =>
         LET val == objs[1].val
             pos == AddressedSeq(last'.key, Len(val))
         IN  /\ objs' = objs
             /\ ValidIndex(last'.key, Len(val)) =>
                   /\ last'.err = "" /\ last'.ret.kind = "int"
                   /\ IntegersOf(<<last'.ret.int>>, val, pos)
             /\ (last'.key.kind = "slice" /\ Len(pos) # 1) =>
                   /\ last'.err = "" /\ last'.ret.kind = "list"
                   /\ IntegersOf(last'.ret.list, val, pos)
             /\ (last'.key.kind = "slice" /\ Len(pos) = 1) =>
                   /\ last'.err = "" /\ last'.ret.kind = "int"
                   /\ IntegersOf(<<last'.ret.int>>, val, pos)]_vars

\* x[1:2] of "022" is the integer 2, not the list [2], and x is as before
C7_Witness ==
    /\ last.op = "getitem"
    /\ last.key = SliceKey(1, 2)
    /\ last.pre = <<"0", "2", "2">>
    /\ objs[1].val = <<"0", "2", "2">>
    /\ last.ret = RetInt(2)

(***************************************************************************)
(* C8: x[i] = c with a valid index and one character, and x[lo:hi] = s     *)
(* with as many characters as fields addressed, succeed; the value then    *)
(* holds the given characters at the addressed positions and the former    *)
(* symbols elsewhere.                                                      *)
(***************************************************************************)
C8_FieldWrite ==
    (/\ last.op = "setitem"
     /\ \/ ValidIndex(last.key, Len(last.pre)) /\ Len(last.s) = 1
        \/ /\ last.key.kind = "slice"
           /\ Len(last.s) = Cardinality(Addressed(last.key, Len(last.pre))))
    => LET pos == AddressedSeq(last.key, Len(last.pre))
       IN  /\ last.err = ""
           /\ Len(objs[1].val) = Len(last.pre)
           /\ \A k \in 1..Len(pos) : objs[1].val[pos[k]] = last.s[k]
           /\ \A p \in 1..Len(last.pre) :
                 p \notin Addressed(last.key, Len(last.pre))
                    => objs[1].val[p] = last.pre[p]

(***************************************************************************)
(* C9: x[lo:hi] = s with a string whose length is not the number of fields *)
(* addressed fails, and the layout after the call is the layout before.    *)
(***************************************************************************)
C9_LengthMismatch ==
    [][(/\ last'.op = "setitem"
        /\ last'.key.kind = "slice"
        /\ Len(last'.s) # Cardinality(Addressed(last'.key, Len(objs[1].val))))
       => (last'.err = "AssertionError" /\ objs' = objs)]_vars

\* one character for the two fields of x[1:3]
C9_Witness ==
    /\ last.op = "setitem"
    /\ last.key = SliceKey(1, 3)
    /\ last.s = <<"A">>
    /\ last.err = "AssertionError"
    /\ last.pre = <<"0", "2", "2">>
    /\ objs[1].val = <<"0", "2", "2">>

====
